---- MODULE Spec2Model ----
(***************************************************************************)
(* A model of kixport (src/kixport.py): the per-board build pipeline run   *)
(* by main/build_board, and the placement reshape mk_pos_jlcpcb with the   *)
(* csv reader and writer it is built on.                                   *)
(***************************************************************************)
EXTENDS Integers, Sequences, FiniteSets, TLC

(***************************************************************************)
(* Bounds of the model.                                                    *)
(***************************************************************************)
\* longest raw placement file (in characters) that is enumerated
MaxLen == 4
\* most boards in a configuration
MaxBoards == 2

(***************************************************************************)
(* Text files and the csv dialect (csv.reader / csv.writer defaults).      *)
(* A file is a sequence of characters.  "a" stands for any character that  *)
(* is neither a delimiter, a quote nor part of a line ending.              *)
(***************************************************************************)
COMMA == ","
QUOTE == "dq"
LF == "LF"
CR == "CR"
EOL == "EOL"
Chars == {"a", COMMA, QUOTE, LF, CR}

\* the header row written at line 118; every cell is plain text
JlcpcbHeader ==
    << <<"Designator">>, <<"Val">>, <<"Package">>, <<"Mid X">>, <<"Mid y">>,
       <<"Rotation">>, <<"Layer">> >>

\* all character sequences of length at most n
RECURSIVE SeqsUpTo(_, _)
SeqsUpTo(S, n) ==
    IF n = 0 THEN {<<>>}
    ELSE LET shorter == SeqsUpTo(S, n - 1)
         IN  shorter \cup {Append(s, c) : s \in {t \in shorter : Len(t) = n - 1}, c \in S}

\* open(pos_path, 'r'): text mode with universal newlines, so "\r\n" and a
\* lone "\r" both reach the reader as "\n"
RECURSIVE TextRead(_)
TextRead(bytes) ==
    IF bytes = <<>> THEN <<>>
    ELSE IF bytes[1] = CR
         THEN <<LF>> \o TextRead(IF Len(bytes) >= 2 /\ bytes[2] = LF
                                 THEN SubSeq(bytes, 3, Len(bytes))
                                 ELSE Tail(bytes))
         ELSE <<bytes[1]>> \o TextRead(Tail(bytes))

\* open(jlcpcb_path, 'w'): text mode, "\n" is written as os.linesep, which is
\* "\n" itself on the POSIX systems this model describes
TextWrite(text) == text

\* the reader's state at the start of a record (parse_reset)
ParseReset == [state |-> "START_RECORD", field |-> <<>>, fields |-> <<>>]

SaveField(st) == [st EXCEPT !.fields = Append(st.fields, st.field), !.field = <<>>]

AddChar(st, c) == [st EXCEPT !.field = Append(st.field, c)]

AfterNewline(c) == IF c = EOL THEN "START_RECORD" ELSE "EAT_CRNL"

\* one step of the csv reader's state machine (csv.reader, default dialect:
\* delimiter ",", quotechar '"', doublequote, not strict)
ProcessChar(st, c) ==
    LET state == IF st.state = "START_RECORD" /\ c \notin {EOL, LF}
                 THEN "START_FIELD" ELSE st.state
    IN  CASE state = "START_RECORD" ->
               IF c = EOL THEN st ELSE [st EXCEPT !.state = "EAT_CRNL"]
          [] state = "START_FIELD" ->
               IF c \in {LF, EOL}
               THEN [SaveField(st) EXCEPT !.state = AfterNewline(c)]
               ELSE IF c = QUOTE THEN [st EXCEPT !.state = "IN_QUOTED_FIELD"]
               ELSE IF c = COMMA THEN [SaveField(st) EXCEPT !.state = "START_FIELD"]
               ELSE [AddChar(st, c) EXCEPT !.state = "IN_FIELD"]
          [] state = "IN_FIELD" ->
               IF c \in {LF, EOL}
               THEN [SaveField(st) EXCEPT !.state = AfterNewline(c)]
               ELSE IF c = COMMA THEN [SaveField(st) EXCEPT !.state = "START_FIELD"]
               ELSE AddChar(st, c)
          [] state = "IN_QUOTED_FIELD" ->
               IF c = EOL THEN st
               ELSE IF c = QUOTE THEN [st EXCEPT !.state = "QUOTE_IN_QUOTED_FIELD"]
               ELSE AddChar(st, c)
          [] state = "QUOTE_IN_QUOTED_FIELD" ->
               IF c = QUOTE THEN [AddChar(st, c) EXCEPT !.state = "IN_QUOTED_FIELD"]
               ELSE IF c = COMMA THEN [SaveField(st) EXCEPT !.state = "START_FIELD"]
               ELSE IF c \in {LF, EOL}
               THEN [SaveField(st) EXCEPT !.state = AfterNewline(c)]
               ELSE [AddChar(st, c) EXCEPT !.state = "IN_FIELD"]
          [] state = "EAT_CRNL" ->
               IF c = EOL THEN [st EXCEPT !.state = "START_RECORD"] ELSE st

\* the rows csv.reader yields for a text: the text is consumed line by line
\* (a line ends after each "\n"), every line is followed by the end-of-line
\* step, and a record ends when that step leaves the START_RECORD state
RECURSIVE ReadRows(_, _, _, _)
ReadRows(text, st, rows, midLine) ==
    IF text = <<>>
    THEN LET last == IF midLine THEN ProcessChar(st, EOL) ELSE st
         IN  IF midLine /\ last.state = "START_RECORD"
             THEN Append(rows, last.fields)
             ELSE IF last.state = "IN_QUOTED_FIELD"
                  THEN Append(rows, SaveField(last).fields)
                  ELSE rows
    ELSE LET c == text[1]
             st1 == ProcessChar(st, c)
             st2 == IF c = LF THEN ProcessChar(st1, EOL) ELSE st1
         IN  IF c = LF /\ st2.state = "START_RECORD"
             THEN ReadRows(Tail(text), ParseReset, Append(rows, st2.fields), FALSE)
             ELSE ReadRows(Tail(text), st2, rows, c # LF)

csv_reader(text) == ReadRows(text, ParseReset, <<>>, FALSE)

\* a field as csv.writer writes it (QUOTE_MINIMAL): quoted when it holds the
\* delimiter, the quote character or a character of the line terminator,
\* with every quote doubled
RECURSIVE DoubleQuotes(_)
DoubleQuotes(field) ==
    IF field = <<>> THEN <<>>
    ELSE (IF field[1] = QUOTE THEN <<QUOTE, QUOTE>> ELSE <<field[1]>>)
         \o DoubleQuotes(Tail(field))

NeedsQuotes(field) == \E i \in 1..Len(field) : field[i] \in {COMMA, QUOTE, LF, CR}

WriteField(field) ==
    IF NeedsQuotes(field) THEN <<QUOTE>> \o DoubleQuotes(field) \o <<QUOTE>> ELSE field

RECURSIVE JoinFields(_)
JoinFields(row) ==
    IF row = <<>> THEN <<>>
    ELSE IF Len(row) = 1 THEN WriteField(row[1])
    ELSE WriteField(row[1]) \o <<COMMA>> \o JoinFields(Tail(row))

\* csv.writer.writerow: the joined fields and the line terminator "\r\n"; a
\* row of one empty field is written as a pair of quotes
writerow(row) ==
    (IF row # <<>> /\ JoinFields(row) = <<>> THEN <<QUOTE, QUOTE>> ELSE JoinFields(row))
    \o <<CR, LF>>

RECURSIVE WriteRows(_)
WriteRows(rows) ==
    IF rows = <<>> THEN <<>> ELSE writerow(rows[1]) \o WriteRows(Tail(rows))

\* SkipHeader without line 116: the input's header row is copied too
SkipHeaderNot(rows) == rows

\* SkipHeader with line 116 run twice: the first data row is skipped too
SkipHeaderTwice(rows) == IF Len(rows) <= 1 THEN <<>> ELSE Tail(Tail(rows))

\* next(input, None): the rows left after the first one is consumed
SkipHeader(rows) == IF rows = <<>> THEN <<>> ELSE Tail(rows)

\* mk_pos_jlcpcb as a function from the bytes of pos_path to the bytes it
\* leaves in jlcpcb_path
mk_pos_jlcpcb(bytes) ==
    TextWrite(writerow(JlcpcbHeader)
              \o WriteRows(SkipHeader(csv_reader(TextRead(bytes)))))

\* the rows a csv reader finds in a file of the program
RowsOf(bytes) == csv_reader(TextRead(bytes))

(***************************************************************************)
(* Configurations (yaml.safe_load of the configuration file, lines 157-160)*)
(***************************************************************************)
\* Python's None
None == "<None>"

\* an optional key of a yaml mapping, and dict.get(key, default)
Absent == [given |-> FALSE]
Given(value) == [given |-> TRUE, value |-> value]
Get(key, default) == IF key.given THEN key.value ELSE default

\* settings.outputs.kibom entries
BomFull == [ini |-> "bom.ini", formats |-> <<"csv", "html">>, file_id |-> "bom"]
BomJlc == [ini |-> "jlc.ini", formats |-> <<"csv">>, file_id |-> "jlc"]
KibomLists == {<<BomFull>>, <<BomJlc>>, <<BomFull, BomJlc>>}

\* settings.outputs.fab entries; mirror is optional in the configuration
FabTop == [name |-> "top", layers |-> "F.Cu", mirror |-> Absent, include_border_title |-> TRUE]
FabBottom == [name |-> "bottom", layers |-> "B.Cu", mirror |-> Given(TRUE), include_border_title |-> FALSE]
FabTopAgain == [name |-> "top", layers |-> "B.Cu", mirror |-> Given(FALSE), include_border_title |-> TRUE]
FabLists == {<<FabTop, FabBottom>>, <<FabTop, FabTopAgain>>}
LayerSets == {"F.Cu", "B.Cu"}

\* the numbers of pages the CAD tool may plot for one layer set
PageCounts == {1, 2}

SettingsSet ==
    {[assembly_dir |-> "assembly", build_dir |-> "build",
      outputs |-> [kibom |-> k, fab |-> f]] : k \in KibomLists, f \in FabLists}

\* boards entries; variants is optional
VariantA == [name |-> "a", variant |-> "A"]
VariantB == [name |-> "b", variant |-> "B"]
VariantEmpty == [name |-> "e", variant |-> ""]
VariantNull == [name |-> "full", variant |-> None]
BoardChoices ==
    {[name |-> "b1", kicad_pro |-> [stem |-> "hw/b1", suffix |-> ".kicad_pro"],
      variants |-> Absent],
     [name |-> "b1", kicad_pro |-> [stem |-> "hw/b1", suffix |-> ".kicad_pro"],
      variants |-> Given(<<VariantA, VariantB>>)],
     [name |-> "b2", kicad_pro |-> [stem |-> "hw/b2", suffix |-> ".kicad_pro"],
      variants |-> Given(<<>>)],
     [name |-> "b2", kicad_pro |-> [stem |-> "hw/b2", suffix |-> ".kicad_pro"],
      variants |-> Given(<<VariantEmpty, VariantNull>>)]}

ConfigSet ==
    {[settings |-> s, boards |-> b] :
        s \in SettingsSet, b \in SeqsUpTo(BoardChoices, MaxBoards) \ {<<>>}}

(***************************************************************************)
(* Board.from_yaml and the paths build_board derives.                      *)
(***************************************************************************)
with_suffix(path, suffix) == [path EXCEPT !.suffix = suffix]

\* from_yaml with the output directories not split by board name
from_yaml_shared(board, settings) ==
    [name |-> board.name,
     kicad_pro |-> board.kicad_pro,
     kicad_sch |-> with_suffix(board.kicad_pro, ".kicad_sch"),
     kicad_pcb |-> with_suffix(board.kicad_pro, ".kicad_pcb"),
     assembly_dir |-> <<settings.assembly_dir, "all">>,
     build_dir |-> <<settings.build_dir, "all">>,
     variants |-> board.variants]

from_yaml(board, settings) ==
    [name |-> board.name,
     kicad_pro |-> board.kicad_pro,
     kicad_sch |-> with_suffix(board.kicad_pro, ".kicad_sch"),
     kicad_pcb |-> with_suffix(board.kicad_pro, ".kicad_pcb"),
     assembly_dir |-> <<settings.assembly_dir, board.name>>,
     build_dir |-> <<settings.build_dir, board.name>>,
     variants |-> board.variants]

\* dir / name
File(dir, name) == [dir |-> dir, name |-> name]

\* the f-strings of build_board, as the tuple of their pieces
SchematicPdf(b) == File(b.assembly_dir, <<b.name, "-schematic.pdf">>)
GerberDir(b) == Append(b.build_dir, <<b.name, "-gerber">>)
GerberZip(b) == File(b.assembly_dir, <<b.name, "-gerber.zip">>)
BomXml(b) == File(b.build_dir, <<b.name, "-bom.xml">>)
FabPdf(b) == File(b.assembly_dir, <<b.name, "-fab.pdf">>)
FabSpecPdf(b, fab) == File(b.build_dir, <<b.name, "-fab-", fab.name, ".pdf">>)
StepFile(b) == File(b.assembly_dir, <<b.name, ".step">>)
PosCsv(b) == File(b.build_dir, <<b.name, "-pos.csv">>)
JlcpcbCsv(b) == File(b.assembly_dir, <<b.name, "-jlcpcb-cpl.csv">>)

\* bom_filename with the variant's display name in place of its selector
bom_filename_by_name(b, variant, bom, format) ==
    IF variant.variant # None
    THEN <<b.name, "-", variant.name, "-", bom.file_id, ".", format>>
    ELSE <<b.name, "-", bom.file_id, ".", format>>

\* lines 143-146: the BOM file name of one variant
bom_filename(b, variant, bom, format) ==
    IF variant.variant # None
    THEN <<b.name, "-", variant.variant, "-", bom.file_id, ".", format>>
    ELSE <<b.name, "-", bom.file_id, ".", format>>

\* line 142: board.variants or [{'name': None, 'variant': None}]
VariantsOrDefault(b) ==
    IF ~b.variants.given \/ b.variants.value = <<>>
    THEN <<[name |-> None, variant |-> None]>>
    ELSE b.variants.value

\* the truth value Python gives a selector (line 76)
Truthy(value) == value # None /\ value # ""

\* lines 75-78: the command line of one BOM-generator call
kibom_cmd(board_bom_xml, ini_filename, variant, bom_file) ==
    [cfg |-> ini_filename,
     d |-> bom_file.dir,
     r |-> IF Truthy(variant) THEN <<"-r", variant>> ELSE <<>>,
     xml |-> board_bom_xml,
     out |-> bom_file.name]

\* lines 140-142: the (spec, format, variant) triples in the order the three
\* nested loops visit them
RECURSIVE Flatten(_)
Flatten(seqs) == IF seqs = <<>> THEN <<>> ELSE seqs[1] \o Flatten(Tail(seqs))

KibomJobs(b, settings) ==
    LET boms == settings.outputs.kibom
        vs == VariantsOrDefault(b)
        perFormat(k, f) == [v \in 1..Len(vs) |-> [k |-> k, f |-> f, v |-> v]]
        perBom(k) == Flatten([f \in 1..Len(boms[k].formats) |-> perFormat(k, f)])
    IN  Flatten([k \in 1..Len(boms) |-> perBom(k)])

(***************************************************************************)
(* State.                                                                  *)
(***************************************************************************)
VARIABLES
    config,      \* the loaded configuration: settings and boards
    toolPages,   \* pages the CAD tool plots for each layer set
    bi,          \* main's loop index into config.boards
    pc,          \* the statement of main / build_board that runs next
    job,         \* index of the next (spec, format, variant) triple of the BOM loops
    fi,          \* index of the next fabrication spec of mk_fab_pdf's loop
    writer,      \* pages held by mk_fab_pdf's PdfWriter
    dirs,        \* directories that exist
    files,       \* files that exist: path -> [by: writing board, data]
    log,         \* every step attempted so far, in order, with its outcome
    kibomCalls,  \* every BOM-generator command issued so far
    error,       \* the exception that ended the run, if any
    posFile,     \* a raw placement file handed to mk_pos_jlcpcb on its own
    jlcFile,     \* the file mk_pos_jlcpcb makes of posFile
    jlcAgain     \* the file mk_pos_jlcpcb makes of jlcFile

vars ==
    <<config, toolPages, bi, pc, job, fi, writer, dirs, files, log, kibomCalls,
      error, posFile, jlcFile, jlcAgain>>

buildVars == <<config, toolPages, bi, pc, job, fi, writer, dirs, files, log, kibomCalls, error>>

posVars == <<posFile, jlcFile, jlcAgain>>

NoFile == "NoFile"
NoError == [board |-> 0, step |-> "none"]
NoFiles == [p \in {} |-> NoFile]

Settings == config.settings
NumBoards == Len(config.boards)
BoardAt(i) == from_yaml(config.boards[i], Settings)
Board == BoardAt(bi)

\* exit codes of an external tool
ExitCodes == {0, 1}

\* subprocess.call in place of check_call: the exit code is ignored
call(returncode) == TRUE

\* subprocess.check_call returns only when the exit code is zero
check_call(returncode) == returncode = 0

\* NextStep with the Gerber zip made before the drill export
NextStepZipEarly(step) ==
    CASE step = "read_version" -> "mkdir_assembly"
      [] step = "mkdir_assembly" -> "mkdir_build"
      [] step = "mkdir_build" -> "schematic_pdf"
      [] step = "schematic_pdf" -> "gerber_dir"
      [] step = "gerber_dir" -> "gerbers"
      [] step = "gerbers" -> "gerber_zip"
      [] step = "gerber_zip" -> "drill"
      [] step = "drill" -> "bom_xml"
      [] step = "bom_xml" -> "kibom"
      [] step = "kibom" -> "fab_export"
      [] step = "fab_export" -> "fab_merge"
      [] step = "fab_merge" -> "step"
      [] step = "step" -> "pos"
      [] step = "pos" -> "pos_jlcpcb"
      [] step = "pos_jlcpcb" -> "main_loop"

\* NextStep with the output directories made after the schematic PDF
NextStepDirsLate(step) ==
    CASE step = "read_version" -> "schematic_pdf"
      [] step = "schematic_pdf" -> "mkdir_assembly"
      [] step = "mkdir_assembly" -> "mkdir_build"
      [] step = "mkdir_build" -> "gerber_dir"
      [] step = "gerber_dir" -> "gerbers"
      [] step = "gerbers" -> "drill"
      [] step = "drill" -> "gerber_zip"
      [] step = "gerber_zip" -> "bom_xml"
      [] step = "bom_xml" -> "kibom"
      [] step = "kibom" -> "fab_export"
      [] step = "fab_export" -> "fab_merge"
      [] step = "fab_merge" -> "step"
      [] step = "step" -> "pos"
      [] step = "pos" -> "pos_jlcpcb"
      [] step = "pos_jlcpcb" -> "main_loop"

\* the statements of build_board, in program order (lines 124-154)
NextStep(step) ==
    CASE step = "read_version" -> "mkdir_assembly"
      [] step = "mkdir_assembly" -> "mkdir_build"
      [] step = "mkdir_build" -> "schematic_pdf"
      [] step = "schematic_pdf" -> "gerber_dir"
      [] step = "gerber_dir" -> "gerbers"
      [] step = "gerbers" -> "drill"
      [] step = "drill" -> "gerber_zip"
      [] step = "gerber_zip" -> "bom_xml"
      [] step = "bom_xml" -> "kibom"
      [] step = "kibom" -> "fab_export"
      [] step = "fab_export" -> "fab_merge"
      [] step = "fab_merge" -> "step"
      [] step = "step" -> "pos"
      [] step = "pos" -> "pos_jlcpcb"
      [] step = "pos_jlcpcb" -> "main_loop"

\* OnError with each board's exception caught in main's loop
OnErrorNextBoard(board) == [pc |-> "main_loop", bi |-> board]

\* an exception is caught nowhere (lines 156-166): it leaves build_board and
\* main, and the process ends
OnError(board) == [pc |-> "raised", bi |-> board]

\* append with the new pages put in front
prepend(held, pages) == pages \o held

\* PdfWriter.append (line 95): the pages of one PDF follow those already held
append(held, pages) == held \o pages

\* the write of one file by the board being built
Put(fs, path, data) == (path :> [by |-> bi, data |-> data]) @@ fs

\* the files of a directory (pathlib's iterdir)
iterdir(fs, dir) == {p \in DOMAIN fs : p.dir = dir}

\* what the CAD tool leaves in an exported raw placement file: a header row
\* and one component whose value holds a comma
PosExport ==
    <<"a", COMMA, "a", LF, "a", COMMA, QUOTE, "a", COMMA, "a", QUOTE, LF>>

\* a step ends: it is logged with its outcome, and control goes to `next`
\* when the step returned, or out of the program when it raised
Finish(step, ok, returned, next) ==
    /\ log' = Append(log, [board |-> bi, step |-> step, ok |-> ok])
    /\ IF returned
       THEN pc' = next /\ bi' = bi /\ error' = error
       ELSE /\ pc' = OnError(bi).pc
            /\ bi' = OnError(bi).bi
            /\ error' = [board |-> bi, step |-> step]

\* one external tool run that writes `data` to `path`: a run that exits zero
\* has written its output, a failing one may or may not have
ToolWrites(step, path, data, next) ==
    \E returncode \in ExitCodes, wrote \in BOOLEAN :
        /\ returncode = 0 => wrote
        /\ files' = IF wrote THEN Put(files, path, data) ELSE files
        /\ Finish(step, returncode = 0, check_call(returncode), next)

\* one step of this program that writes `data` to `path`; it raises when
\* `possible` is false, and may raise on an I/O error, leaving the file
\* written in part or not at all
PythonWrites(step, possible, path, data, partial, next) ==
    \E ok \in BOOLEAN, wrote \in BOOLEAN :
        /\ ok => possible
        /\ ok => wrote
        /\ files' = IF wrote THEN Put(files, path, IF ok THEN data ELSE partial) ELSE files
        /\ Finish(step, ok, ok, next)

(***************************************************************************)
(* main and build_board.                                                   *)
(***************************************************************************)
Init ==
    /\ config \in ConfigSet
    /\ toolPages \in [LayerSets -> PageCounts]
    /\ bi = 0
    /\ pc = "main_loop"
    /\ job = 1
    /\ fi = 1
    /\ writer = <<>>
    /\ dirs = {}
    /\ files = NoFiles
    /\ log = <<>>
    /\ kibomCalls = <<>>
    /\ error = NoError
    /\ posFile = <<>>
    /\ jlcFile = NoFile
    /\ jlcAgain = NoFile

\* lines 162-163: the for statement takes the next board, or main returns
main ==
    /\ pc = "main_loop"
    /\ IF bi < NumBoards
       THEN bi' = bi + 1 /\ pc' = "read_version"
       ELSE bi' = bi /\ pc' = "exit"
    /\ UNCHANGED <<config, toolPages, job, fi, writer, dirs, files, log,
                   kibomCalls, error, posVars>>

\* line 124: read_version, which raises when the project file has no VERSION
read_version ==
    /\ pc = "read_version"
    /\ \E ok \in BOOLEAN : Finish("read_version", ok, ok, NextStep("read_version"))
    /\ UNCHANGED <<config, toolPages, job, fi, writer, dirs, files, kibomCalls, posVars>>

\* os.makedirs(dir, exist_ok=True)
makedirs(step, dir) ==
    /\ pc = step
    /\ \E ok \in BOOLEAN :
        /\ dirs' = IF ok THEN dirs \cup {SubSeq(dir, 1, n) : n \in 1..Len(dir)} ELSE dirs
        /\ Finish(step, ok, ok, NextStep(step))
    /\ UNCHANGED <<config, toolPages, job, fi, writer, files, kibomCalls, posVars>>

\* line 126
makedirs_assembly_dir == makedirs("mkdir_assembly", Board.assembly_dir)

\* line 127
makedirs_build_dir == makedirs("mkdir_build", Board.build_dir)

\* line 129: mk_schematic_pdf
mk_schematic_pdf ==
    /\ pc = "schematic_pdf"
    /\ ToolWrites("schematic_pdf", SchematicPdf(Board), <<"schematic", Board.kicad_sch>>,
                  NextStep("schematic_pdf"))
    /\ UNCHANGED <<config, toolPages, job, fi, writer, dirs, kibomCalls, posVars>>

\* line 56: mk_gerber makes the Gerber directory
mk_gerber_makedirs == makedirs("gerber_dir", GerberDir(Board))

\* lines 57-60: the gerbers command of mk_gerber
mk_gerber_gerbers ==
    /\ pc = "gerbers"
    /\ ToolWrites("gerbers", File(GerberDir(Board), <<"layers.gbr">>),
                  <<"gerbers", Board.kicad_pcb>>, NextStep("gerbers"))
    /\ UNCHANGED <<config, toolPages, job, fi, writer, dirs, kibomCalls, posVars>>

\* lines 61-64: the drill command of mk_gerber
mk_gerber_drill ==
    /\ pc = "drill"
    /\ ToolWrites("drill", File(GerberDir(Board), <<"drill.drl">>),
                  <<"drill", Board.kicad_pcb>>, NextStep("drill"))
    /\ UNCHANGED <<config, toolPages, job, fi, writer, dirs, kibomCalls, posVars>>

\* lines 66-70: mk_gerber_zip archives every file of the Gerber directory
mk_gerber_zip ==
    /\ pc = "gerber_zip"
    /\ PythonWrites("gerber_zip", GerberDir(Board) \in dirs, GerberZip(Board),
                    {p.name : p \in iterdir(files, GerberDir(Board))}, {},
                    NextStep("gerber_zip"))
    /\ UNCHANGED <<config, toolPages, job, fi, writer, dirs, kibomCalls, posVars>>

\* line 138: mk_bom_xml; the BOM loops start at their first triple
mk_bom_xml ==
    /\ pc = "bom_xml"
    /\ ToolWrites("bom_xml", BomXml(Board), <<"netlist", Board.kicad_sch>>,
                  NextStep("bom_xml"))
    /\ job' = 1
    /\ UNCHANGED <<config, toolPages, fi, writer, dirs, kibomCalls, posVars>>

\* lines 143-147 and run_kibom: one BOM-generator call
run_kibom ==
    /\ pc = "kibom"
    /\ job <= Len(KibomJobs(Board, Settings))
    /\ LET j == KibomJobs(Board, Settings)[job]
           bom == Settings.outputs.kibom[j.k]
           format == bom.formats[j.f]
           variant == VariantsOrDefault(Board)[j.v]
           bom_file == File(Board.assembly_dir, bom_filename(Board, variant, bom, format))
           cmd == kibom_cmd(BomXml(Board), bom.ini, variant.variant, bom_file)
       IN  /\ kibomCalls' = Append(kibomCalls, [board |-> bi, job |-> j, cmd |-> cmd])
           /\ ToolWrites("kibom", File(cmd.d, cmd.out), <<"bom", j>>, "kibom")
    /\ job' = job + 1
    /\ UNCHANGED <<config, toolPages, fi, writer, dirs, posVars>>

\* the BOM loops are exhausted; line 84: mk_fab_pdf starts with an empty writer
kibom_loop_end ==
    /\ pc = "kibom"
    /\ job > Len(KibomJobs(Board, Settings))
    /\ pc' = NextStep("kibom")
    /\ fi' = 1
    /\ writer' = <<>>
    /\ UNCHANGED <<config, toolPages, bi, job, dirs, files, log, kibomCalls, error, posVars>>

\* lines 86-95: one fabrication spec is exported, read back and appended
mk_fab_pdf_export ==
    /\ pc = "fab_export"
    /\ fi <= Len(Settings.outputs.fab)
    /\ LET fab == Settings.outputs.fab[fi]
           pdf_file == FabSpecPdf(Board, fab)
           flags == <<Get(fab.mirror, FALSE), fab.include_border_title>>
           pages == [n \in 1..toolPages[fab.layers] |-> [spec |-> fi, page |-> n, flags |-> flags]]
       IN  /\ ToolWrites("fab_export", pdf_file, pages, "fab_export")
           /\ writer' = IF pc' = "fab_export" /\ pdf_file \in DOMAIN files'
                        THEN append(writer, files'[pdf_file].data)
                        ELSE writer
    /\ fi' = fi + 1
    /\ UNCHANGED <<config, toolPages, job, dirs, kibomCalls, posVars>>

\* the loop over the fabrication specs is exhausted
mk_fab_pdf_loop_end ==
    /\ pc = "fab_export"
    /\ fi > Len(Settings.outputs.fab)
    /\ pc' = NextStep("fab_export")
    /\ UNCHANGED <<config, toolPages, bi, job, fi, writer, dirs, files, log, kibomCalls,
                   error, posVars>>

\* lines 96-97: the merged fabrication PDF is written
mk_fab_pdf_write ==
    /\ pc = "fab_merge"
    /\ PythonWrites("fab_merge", TRUE, FabPdf(Board), writer, <<>>, NextStep("fab_merge"))
    /\ UNCHANGED <<config, toolPages, job, fi, writer, dirs, kibomCalls, posVars>>

\* line 151: mk_step
mk_step ==
    /\ pc = "step"
    /\ ToolWrites("step", StepFile(Board), <<"step", Board.kicad_pcb>>, NextStep("step"))
    /\ UNCHANGED <<config, toolPages, job, fi, writer, dirs, kibomCalls, posVars>>

\* line 153: mk_pos
mk_pos ==
    /\ pc = "pos"
    /\ ToolWrites("pos", PosCsv(Board), PosExport, NextStep("pos"))
    /\ UNCHANGED <<config, toolPages, job, fi, writer, dirs, kibomCalls, posVars>>

\* line 154: mk_pos_jlcpcb reshapes the raw placement file; build_board
\* returns to main's loop
call_mk_pos_jlcpcb ==
    /\ pc = "pos_jlcpcb"
    /\ LET present == PosCsv(Board) \in DOMAIN files
           data == IF present THEN mk_pos_jlcpcb(files[PosCsv(Board)].data) ELSE <<>>
       IN  PythonWrites("pos_jlcpcb", present, JlcpcbCsv(Board), data, <<>>,
                        NextStep("pos_jlcpcb"))
    /\ UNCHANGED <<config, toolPages, job, fi, writer, dirs, kibomCalls, posVars>>

Next ==
    \/ main
    \/ read_version
    \/ makedirs_assembly_dir
    \/ makedirs_build_dir
    \/ mk_schematic_pdf
    \/ mk_gerber_makedirs
    \/ mk_gerber_gerbers
    \/ mk_gerber_drill
    \/ mk_gerber_zip
    \/ mk_bom_xml
    \/ run_kibom
    \/ kibom_loop_end
    \/ mk_fab_pdf_export
    \/ mk_fab_pdf_loop_end
    \/ mk_fab_pdf_write
    \/ mk_step
    \/ mk_pos
    \/ call_mk_pos_jlcpcb

Spec == Init /\ [][Next]_vars

(***************************************************************************)
(* mk_pos_jlcpcb on its own, over every raw placement file of up to MaxLen *)
(* characters; main is given a configuration without boards.               *)
(***************************************************************************)
InitPos ==
    /\ config = [settings |-> CHOOSE s \in SettingsSet : TRUE, boards |-> <<>>]
    /\ toolPages = [l \in LayerSets |-> 1]
    /\ bi = 0
    /\ pc = "exit"
    /\ job = 1
    /\ fi = 1
    /\ writer = <<>>
    /\ dirs = {}
    /\ files = NoFiles
    /\ log = <<>>
    /\ kibomCalls = <<>>
    /\ error = NoError
    /\ posFile \in SeqsUpTo(Chars, MaxLen)
    /\ jlcFile = NoFile
    /\ jlcAgain = NoFile

\* mk_pos_jlcpcb(pos_path = the raw placement file, jlcpcb_path)
Reshape ==
    /\ jlcFile = NoFile
    /\ jlcFile' = mk_pos_jlcpcb(posFile)
    /\ UNCHANGED <<buildVars, posFile, jlcAgain>>

\* mk_pos_jlcpcb applied again, with the reshaped file as its input
ReshapeAgain ==
    /\ jlcFile # NoFile
    /\ jlcAgain = NoFile
    /\ jlcAgain' = mk_pos_jlcpcb(jlcFile)
    /\ UNCHANGED <<buildVars, posFile, jlcFile>>

NextPos == Reshape \/ ReshapeAgain

SpecPos == InitPos /\ [][NextPos]_vars

(***************************************************************************)
(* Vocabulary of the properties.                                           *)
(***************************************************************************)
Boards == 1..NumBoards

\* the steps board i attempted, in order
StepsOf(i) ==
    LET mine == SelectSeq(log, LAMBDA e : e.board = i)
    IN  [n \in 1..Len(mine) |-> mine[n].step]

Attempted(i, steps) == \E n \in DOMAIN log : log[n].board = i /\ log[n].step \in steps

Failed(i, steps) ==
    \E n \in DOMAIN log : log[n].board = i /\ log[n].step \in steps /\ ~log[n].ok

NoFailure(i) == \A n \in DOMAIN log : log[n].board = i => log[n].ok

\* build_board has returned for board i
Completed(i) == i < bi \/ (i = bi /\ pc \in {"main_loop", "exit"})

IsPrefix(s, t) == Len(s) <= Len(t) /\ s = SubSeq(t, 1, Len(s))

Repeat(x, n) == [k \in 1..n |-> x]

WrittenBy(path, i) == path \in DOMAIN files /\ files[path].by = i

DistinctNames ==
    \A i, j \in Boards : i # j => config.boards[i].name # config.boards[j].name

(***************************************************************************)
(* C1.  In a run of build_board in which no step fails, the steps happen   *)
(* one after the other in this order: read version, make the assembly and  *)
(* the build directory, schematic PDF, Gerber export then drill export,    *)
(* Gerber zip, BOM netlist, every BOM-generator call, the fabrication PDF  *)
(* exports and their merge, STEP, placement export, placement reshape.     *)
(***************************************************************************)
StepsInOrder(i) ==
    <<"read_version", "mkdir_assembly", "mkdir_build", "schematic_pdf",
      "gerber_dir", "gerbers", "drill", "gerber_zip", "bom_xml">>
    \o Repeat("kibom", Len(KibomJobs(BoardAt(i), Settings)))
    \o Repeat("fab_export", Len(Settings.outputs.fab))
    \o <<"fab_merge", "step", "pos", "pos_jlcpcb">>

\* C1: without a failure, the steps of a board are a prefix of the fixed
\* order, and all of it once build_board has returned
C1_FixedStepOrder ==
    \A i \in Boards :
        NoFailure(i) =>
            /\ IsPrefix(StepsOf(i), StepsInOrder(i))
            /\ Completed(i) => StepsOf(i) = StepsInOrder(i)

\* a run of two boards that ended without a failure
C1_Witness == pc = "exit" /\ error = NoError /\ NumBoards >= 2

(***************************************************************************)
(* C2.  When the CAD tool exits non-zero in the gerbers or the drill       *)
(* command of a board, mk_gerber_zip is not called for that board, the     *)
(* board writes no zip file, and none of its later steps runs.             *)
(***************************************************************************)
AfterGerber ==
    {"gerber_zip", "bom_xml", "kibom", "fab_export", "fab_merge", "step", "pos",
     "pos_jlcpcb"}

\* C2: a failed gerbers or drill command leaves the board without a zip
\* call, without a zip file of its own and without any later step
C2_GerberFailureStopsBoard ==
    \A i \in Boards :
        Failed(i, {"gerbers", "drill"}) =>
            /\ ~Attempted(i, AfterGerber)
            /\ ~WrittenBy(GerberZip(BoardAt(i)), i)

\* the drill command of the second board failed after the first board was built
C2_Witness == error = [board |-> 2, step |-> "drill"] /\ Completed(1)

(***************************************************************************)
(* C3.  A failed step is the last step of the run: it is not tried again,  *)
(* no further step of its board runs and no later board is started.        *)
(***************************************************************************)
\* C3: a failed step is the last entry of the log, and the run has ended
\* with that step's exception
C3_FailureEndsRun ==
    \A n \in DOMAIN log :
        ~log[n].ok =>
            /\ n = Len(log)
            /\ pc = "raised"
            /\ bi = log[n].board
            /\ error = [board |-> log[n].board, step |-> log[n].step]

\* the first of two boards failed in a BOM-generator call
C3_Witness == error = [board |-> 1, step |-> "kibom"] /\ NumBoards >= 2

(***************************************************************************)
(* C4.  A step that writes an artifact of a board, and any call of an      *)
(* invoker for it, happens only when the board's assembly directory and    *)
(* build directory both exist already.                                     *)
(***************************************************************************)
InvokerSteps ==
    {"schematic_pdf", "gerber_dir", "gerbers", "drill", "gerber_zip", "bom_xml",
     "kibom", "fab_export", "fab_merge", "step", "pos", "pos_jlcpcb"}

\* C4: a step that changes a file or calls an invoker starts in a state
\* where both directories of its board exist
C4_DirsBeforeArtifacts ==
    [][(\/ files' # files
        \/ (Len(log') > Len(log) /\ log'[Len(log')].step \in InvokerSteps))
       => (bi \in Boards /\ Board.assembly_dir \in dirs /\ Board.build_dir \in dirs)]_vars

\* the schematic PDF of a board has been written
C4_Witness == bi \in Boards /\ pc = "gerber_dir" /\ WrittenBy(SchematicPdf(Board), bi)

(***************************************************************************)
(* C5.  A board that completed the BOM step called the BOM generator       *)
(* exactly once per (BOM spec, format, variant), a board without variants  *)
(* counting as one variant without a selector; each output file is in the  *)
(* assembly directory and carries the name the naming rule gives.          *)
(***************************************************************************)
BomDone(i) ==
    \/ i = bi /\ pc \in {"fab_export", "fab_merge", "step", "pos", "pos_jlcpcb"}
    \/ Attempted(i, {"fab_export", "fab_merge", "step", "pos", "pos_jlcpcb"})
    \/ Completed(i)

DeclaredVariants(i) == Get(config.boards[i].variants, <<>>)

\* the variants of board i, one implicit variant when it declares none
VariantsOf(i) ==
    IF DeclaredVariants(i) = <<>>
    THEN <<[name |-> None, variant |-> None]>>
    ELSE DeclaredVariants(i)

Combinations(i) ==
    UNION {{[k |-> k, f |-> f, v |-> v] :
                f \in DOMAIN Settings.outputs.kibom[k].formats, v \in DOMAIN VariantsOf(i)} :
            k \in DOMAIN Settings.outputs.kibom}

CallsOf(i) == SelectSeq(kibomCalls, LAMBDA c : c.board = i)

\* the naming rule as claimed: by whether the board has variants
NameByBoard(i, c) ==
    LET name == config.boards[i].name
        bom == Settings.outputs.kibom[c.k]
    IN  IF DeclaredVariants(i) # <<>>
        THEN <<name, "-", VariantsOf(i)[c.v].variant, "-", bom.file_id, ".", bom.formats[c.f]>>
        ELSE <<name, "-", bom.file_id, ".", bom.formats[c.f]>>

\* the naming rule by whether the variant has a selector
NameBySelector(i, c) ==
    LET name == config.boards[i].name
        bom == Settings.outputs.kibom[c.k]
        selector == VariantsOf(i)[c.v].variant
    IN  IF selector # None
        THEN <<name, "-", selector, "-", bom.file_id, ".", bom.formats[c.f]>>
        ELSE <<name, "-", bom.file_id, ".", bom.formats[c.f]>>

BomFiles(i) == {CallsOf(i)[n].cmd.out : n \in DOMAIN CallsOf(i)}

\* the contract of the BOM step, under either naming rule
BomContract(byBoard) ==
    \A i \in Boards :
        BomDone(i) =>
            /\ \A c \in Combinations(i) :
                  Cardinality({n \in DOMAIN CallsOf(i) : CallsOf(i)[n].job = c}) = 1
            /\ \A n \in DOMAIN CallsOf(i) :
                  LET this == CallsOf(i)[n]
                  IN  /\ this.job \in Combinations(i)
                      /\ this.cmd.d = BoardAt(i).assembly_dir
                      /\ this.cmd.out = IF byBoard THEN NameByBoard(i, this.job)
                                        ELSE NameBySelector(i, this.job)
                      /\ File(this.cmd.d, this.cmd.out) \in DOMAIN files
            /\ (DeclaredVariants(i) = <<VariantA, VariantB>>
                    /\ Settings.outputs.kibom = <<BomFull>>)
               => BomFiles(i) =
                    {<<config.boards[i].name, "-", v, "-", "bom", ".", f>> :
                        v \in {"A", "B"}, f \in {"csv", "html"}}
            /\ (DeclaredVariants(i) = <<>> /\ Settings.outputs.kibom = <<BomJlc>>)
               => BomFiles(i) = {<<config.boards[i].name, "-", "jlc", ".", "csv">>}

\* C5 as claimed: the name has a variant segment when the board has variants
C5_NamedByBoardVariants == BomContract(TRUE)

\* C5 amended: the name has a variant segment when the variant has a
\* selector; a declared variant whose selector is null gets the name of a
\* board without variants
C5_NamedBySelector == BomContract(FALSE)

\* a board with the variants A and B finished its four calls for one spec
\* with two formats
C5_Witness ==
    /\ bi \in Boards
    /\ pc = "fab_export"
    /\ DeclaredVariants(bi) = <<VariantA, VariantB>>
    /\ Settings.outputs.kibom = <<BomFull>>
    /\ Cardinality(BomFiles(bi)) = 4

C7_SecondReshapeLosesRow ==
    (jlcAgain # NoFile /\ Len(RowsOf(jlcFile)) >= 2) =>
        Len(RowsOf(jlcAgain)) < Len(RowsOf(jlcFile))

\* C7 amended: the second application loses nothing, its output is the
\* first application's output character for character
C7_SecondReshapeSame == jlcAgain # NoFile => jlcAgain = jlcFile

\* mk_pos_jlcpcb was applied twice to a file with a data row
C7_Witness == jlcAgain # NoFile /\ Len(RowsOf(jlcFile)) >= 2

(***************************************************************************)
(* C8.  With pairwise distinct board names, no step taken after a board    *)
(* was built (by a later board, or the abort of the run) adds, removes or  *)
(* changes a file under that board's assembly or build directory.          *)
(***************************************************************************)
Under(dir, root) == Len(dir) >= Len(root) /\ SubSeq(dir, 1, Len(root)) = root

FilesUnder(fs, i) ==
    LET mine == {p \in DOMAIN fs : \/ Under(p.dir, BoardAt(i).assembly_dir)
                                   \/ Under(p.dir, BoardAt(i).build_dir)}
    IN  [p \in mine |-> fs[p]]

PageCount(f) == toolPages[Settings.outputs.fab[f].layers]

RECURSIVE PagesBefore(_)
PagesBefore(f) == IF f = 1 THEN 0 ELSE PagesBefore(f - 1) + PageCount(f - 1)

\* C9: a merged PDF written without failure holds every spec's pages in
\* configured order; a failed export leaves the board without a merge
C9_FabMergeInOrder ==
    \A i \in Boards :
        /\ (WrittenBy(FabPdf(BoardAt(i)), i) /\ ~Failed(i, {"fab_merge"})) =>
              LET merged == files[FabPdf(BoardAt(i))].data
                  specs == DOMAIN Settings.outputs.fab
              IN  /\ Len(merged) = PagesBefore(Len(Settings.outputs.fab) + 1)
                  /\ \A f \in specs : \A n \in 1..PageCount(f) :
                        /\ merged[PagesBefore(f) + n].spec = f
                        /\ merged[PagesBefore(f) + n].page = n
        /\ Failed(i, {"fab_export"}) =>
              /\ ~Attempted(i, {"fab_merge"})
              /\ ~WrittenBy(FabPdf(BoardAt(i)), i)

\* a merged PDF of two specs with different page counts
C9_Witness ==
    /\ bi \in Boards
    /\ pc = "step"
    /\ WrittenBy(FabPdf(Board), bi)
    /\ PageCount(1) # PageCount(2)

(***************************************************************************)
(* C10.  For every BOM-generator call, the selector argument (-r) is       *)
(* passed exactly when the output file name has a variant segment.         *)
(***************************************************************************)
HasVariantSegment(name) == Len(name) = Len(<<"board", "-", "variant", "-", "file_id", ".", "format">>)

\* C10: -r is in the command exactly when the output name has a variant
\* segment
C10_SelectorIffVariantSegment ==
    \A n \in DOMAIN kibomCalls :
        (kibomCalls[n].cmd.r # <<>>) <=> HasVariantSegment(kibomCalls[n].cmd.out)

====
